---- MODULE Spec2Model ----
(***************************************************************************)
(* Model of the runtime bridge of src/dev/runtime/server.py (SkillServer): *)
(* the asyncio read loop, the dispatch of inbound JSON-RPC frames, the     *)
(* reverse-RPC client with its pending table, and the event loop's         *)
(* scheduling of the main task, of detached tasks and of timers.           *)
(*                                                                         *)
(* The main task runs atomically from one suspension point to the next:    *)
(* it suspends only in reader.readline() (line 131) and in                 *)
(* asyncio.wait_for (line 396).  Detached tasks created by ensure_future   *)
(* (lines 352, 355) start only while the main task is suspended.           *)
(***************************************************************************)
EXTENDS Integers, Sequences, FiniteSets, TLC

VARIABLES
    inq,            \* lines the host has written and the loop has not read yet
    closed,         \* the host has closed the inbound stream
    nsent,          \* number of lines written by the host so far
    pc,             \* position of the main task (_run)
    cur,            \* message being dispatched by _handle_message
    prog,           \* what is left of the running handler or hook body
    waitId,         \* id of the reverse call the main task awaits (0: none)
    tools,          \* self._tools: the entries in insertion order
    hooks,          \* self._hooks: the set of hook slots that are set
    pending,        \* self._pending: ids that have an entry
    nextId,         \* self._next_id
    calls,          \* one record per reverse call, indexed by its id
    spawned,        \* detached tasks created and not yet started (FIFO)
    out,            \* frames written to the outbound stream, in order
    errlog,         \* entries written by log() for dropped or failed input
    dataDir,        \* self._data_dir
    exitScheduled,  \* call_later(0.1, sys.exit) is armed
    ninvoked,       \* number of tool handler invocations so far
    menu,           \* the kind of traffic the host sends in this run
    line,           \* the line _run read last
    hookRet,        \* what the message hook invoked last returned
    wire,           \* chunks of frames the outbound pipe has accepted
    wbuf,           \* chunks of frames buffered in the writer's transport
    tsk             \* the tool-skill example: its stdin, stdout and loop

\* the variables of the SkillServer bridge
bridgeVars == <<inq, closed, nsent, pc, cur, prog, waitId, tools, hooks,
                pending, nextId, calls, spawned, out, errlog, dataDir,
                exitScheduled, ninvoked, menu, line, hookRet, wire, wbuf>>

vars == <<inq, closed, nsent, pc, cur, prog, waitId, tools, hooks, pending,
          nextId, calls, spawned, out, errlog, dataDir, exitScheduled,
          ninvoked, menu, line, hookRet, wire, wbuf, tsk>>

----------------------------------------------------------------------------
(* Bounds of the model.                                                    *)
MaxLines == 3       \* lines the host writes
MaxCalls == 3       \* reverse calls issued by one bridge instance
MaxBuf == 1         \* lines waiting in the inbound stream

(* Program constants.                                                      *)
InternalError == -32603
MethodNotFound == -32601
FirstId == 1

----------------------------------------------------------------------------
(* The skill definition handed to the constructor.                         *)

\* A tool of the definition: its name, and ver for the rest of it (the
\* description, the parameters and the execute it carries).
Tool(name, ver) == [name |-> name, ver |-> ver]

\* skill.tools, in the order of the definition; the definition carries two
\* tools with the name "plain".
SkillTools == <<Tool("plain", 1), Tool("add_note", 1), Tool("get_note", 1),
                Tool("boom", 1), Tool("list_notes", 1), Tool("raw_state", 1),
                Tool("plain", 2)>>

\* DictSet appending the entry whether or not the key is there.
DictSet_Appends(d, t) == Append(d, t)

\* d[t.definition.name] = t on a dict kept in insertion order: a key that
\* is there keeps its place and takes the new value, a new key goes last.
DictSet(d, t) ==
    IF \E i \in 1..Len(d) : d[i].name = t.name
    THEN [i \in 1..Len(d) |-> IF d[i].name = t.name THEN t ELSE d[i]]
    ELSE Append(d, t)

\* {t.definition.name: t for t in skill.tools}
RECURSIVE Registry(_)
Registry(ts) ==
    IF ts = <<>> THEN <<>>
    ELSE DictSet(Registry(SubSeq(ts, 1, Len(ts) - 1)), ts[Len(ts)])

Op(o, m) == [op |-> o, m |-> m]

\* What a tool's execute does between its awaits: "await" is an awaited
\* reverse call whose failure propagates, "try_await" one inside try/except
\* that turns the failure into an is_error result, "fire" a fire-and-forget
\* Context call (ensure_future), "raise" an exception, "ctx" the statement
\* args.pop("__context__"), "register" a call of ctx.tools.register,
\* "await_raw" an awaited reverse call whose params hold a value json.dumps
\* cannot encode (a set, a datetime, bytes).
\* add_note and get_note make the calls of the example's tools on the
\* server object they hold; list_notes takes its Context from its
\* arguments, as every tool of the example does in its first statement.
ToolBody(name) ==
    CASE name = "add_note" -> <<Op("await", "data/write"),
                                Op("fire", "state/set"),
                                Op("fire", "intelligence/emitEvent")>>
      [] name = "get_note" -> <<Op("try_await", "data/read")>>
      [] name = "boom"     -> <<Op("raise", "")>>
      [] name = "list_notes" -> <<Op("ctx", "")>>
      [] name = "raw_state" -> <<Op("await_raw", "state/set")>>
      [] OTHER             -> <<>>

\* The hook slots and what each hook does when it is set.
HookSlots == {"on_load", "on_unload", "on_session_start", "on_session_end",
              "on_before_message", "on_after_response", "on_tick"}

HookBody(slot) ==
    CASE slot = "on_load"          -> <<Op("register", "advanced_analytics"),
                                        Op("fire", "state/set")>>
      [] slot = "on_unload"        -> <<Op("fire", "state/set")>>
      [] slot = "on_session_start" -> <<Op("raise", "")>>
      [] slot = "on_session_end"   -> <<Op("await", "data/write")>>
      [] slot = "on_tick"          -> <<Op("fire", "state/set"),
                                        Op("fire", "intelligence/emitEvent")>>
      [] OTHER                     -> <<>>

\* What on_before_message / on_after_response may return: a string, the
\* empty string, or something that is not a string.
HookReturns == {"str:text", "str:", "nostr"}

----------------------------------------------------------------------------
(* Inbound lines.                                                          *)

Methods == {"tools/list", "tools/call", "skill/load", "skill/unload",
            "skill/activate", "skill/deactivate", "skill/sessionStart",
            "skill/sessionEnd", "skill/beforeMessage", "skill/afterResponse",
            "skill/tick", "skill/shutdown", "bogus/method"}

\* "null" stands for an absent or null id (message.get("id") is None for
\* both), "0" for the number 0 and "" for the empty string
ReqIds == {"null", "a"}
FalsyIds == {"0", ""}
CallNames == {"plain", "add_note", "get_note", "boom", "list_notes",
              "raw_state", "ghost"}
Dirs == {"", "d1", "d2"}

Line(k, id, m, t, d, r, e) ==
    [kind |-> k, id |-> id, method |-> m, tool |-> t, dir |-> d,
     rid |-> r, err |-> e]

Req(id, m, t, d) == Line("req", id, m, t, d, 0, "none")
\* a message carrying result (err = "none") or error; rid 0: no such call.
\* err = "obj": error is an object; err = "bad": error is not an object.
Resp(r, e) == Line("resp", "null", "", "", "", r, e)
\* a message carrying a result and, with it, a method and the id 1
MethodResp == Line("resp", "a", "skill/tick", "", "", 1, "none")
Raw(k) == Line(k, "null", "", "", "", 0, "none")

\* The host's traffic in one run is drawn from one of these families.
AwaitTraffic ==
    {Req("a", "tools/call", "add_note", ""),
     Req("a", "tools/call", "get_note", ""),
     Req("null", "tools/call", "add_note", "")}
    \cup {Resp(r, e) : r \in 1..2, e \in {"none", "obj"}}

ReverseTraffic ==
    {Req("null", "skill/tick", "", ""), Req("a", "skill/tick", "", ""),
     Req("a", "skill/unload", "", "")}
    \cup {Resp(r, e) : r \in 0..MaxCalls, e \in {"none", "obj"}}

DispatchTraffic ==
    {Req(id, m, "", "") : id \in ReqIds, m \in {"tools/list", "bogus/method"}}
    \cup {Req(id, "tools/call", t, "") : id \in ReqIds,
                                         t \in {"plain", "boom", "ghost"}}
    \cup {Req("a", "tools/call", "list_notes", "")}

StrayTraffic ==
    {Raw(k) : k \in {"blank", "badjson", "badutf8", "nonobj", "respbadid"}}
    \cup {Req("a", "tools/list", "", ""), Req("null", "skill/tick", "", ""),
          Resp(1, "bad"), Resp(1, "none"), MethodResp, Req("a", "", "", "")}

LifecycleTraffic ==
    {Req(id, m, "", "") : id \in ReqIds,
                          m \in {"skill/activate", "skill/deactivate",
                                 "skill/sessionStart", "skill/sessionEnd",
                                 "skill/beforeMessage",
                                 "skill/afterResponse"}}

LoadTraffic ==
    {Req(id, "skill/load", "", d) : id \in ReqIds, d \in Dirs}
    \cup {Req("a", "skill/unload", "", "")}

ShutdownTraffic ==
    {Req(id, "skill/shutdown", "", "") : id \in ReqIds}
    \cup {Req("a", "tools/call", "plain", ""),
          Req("a", "tools/call", "get_note", ""),
          Req("null", "skill/tick", "", ""), Resp(1, "none")}

\* Requests whose id is a JSON value that Python takes for false
IdTraffic ==
    {Req(id, "tools/call", t, "") : id \in FalsyIds \cup {"null"},
                                    t \in {"plain", "boom"}}

\* traffic that reaches a reverse call whose request cannot be encoded
EncodeTraffic ==
    {Req("a", "tools/call", "raw_state", ""),
     Req("a", "tools/call", "get_note", ""),
     Req("null", "skill/unload", "", ""), Resp(1, "none")}

\* traffic of a host that is slow to read the skill's stdout
BackpressureTraffic ==
    {Req("a", "tools/list", "", ""), Req("null", "skill/unload", "", ""),
     Req("a", "skill/shutdown", "", "")}

Traffic(name) ==
    CASE name = "await"     -> AwaitTraffic
      [] name = "backpressure" -> BackpressureTraffic
      [] name = "encode"    -> EncodeTraffic
      [] name = "ids"       -> IdTraffic
      [] name = "reverse"   -> ReverseTraffic
      [] name = "dispatch"  -> DispatchTraffic
      [] name = "stray"     -> StrayTraffic
      [] name = "lifecycle" -> LifecycleTraffic
      [] name = "load"      -> LoadTraffic
      [] OTHER              -> ShutdownTraffic

NoLine == Raw("none")

NoMsg == [id |-> "null", method |-> "none", tool |-> "", ret |-> "nostr",
          content |-> "", iserr |-> FALSE, hasCtx |-> FALSE]

----------------------------------------------------------------------------
(* Outbound frames.                                                        *)

\* _send_response: {"id": msg_id, "result": result}
ResultFrame(id, body, isErr, list) ==
    [t |-> "result", id |-> id, cid |-> 0, code |-> 0, body |-> body,
     isErr |-> isErr, list |-> list]

\* _send_error: {"id": msg_id, "error": {"code": code, "message": message}}
ErrorFrame(id, code, message) ==
    [t |-> "error", id |-> id, cid |-> 0, code |-> code, body |-> message,
     isErr |-> FALSE, list |-> <<>>]

\* the request of a reverse call: {"id": msg_id, "method": method}
CallFrame(cid, method) ==
    [t |-> "call", id |-> "null", cid |-> cid, code |-> 0, body |-> method,
     isErr |-> FALSE, list |-> <<>>]

IsResponseFrame(f) == f.t \in {"result", "error"}

\* The bytes of frame number f of the outbound stream, or a part of them:
\* "whole" is the line with its newline, "head" a proper prefix of it,
\* "tail" the rest.
Chunk(f, part) == [f |-> f, part |-> part]

\* How much of a write the pipe takes at once.  A host that reads promptly
\* leaves room for every frame; a host that does not may, once something
\* is in the pipe, leave room for a part of the frame or for nothing.
Accepts ==
    IF menu = "backpressure" /\ wire # <<>>
    THEN {"all", "part", "none"}
    ELSE {"all"}

\* WriterWrite handing the bytes to the pipe without looking at the buffer.
WriterWrite_SkipsBuffer(w, f, acc) ==
    CASE acc = "all"  -> [w EXCEPT !.wire = Append(w.wire, Chunk(f, "whole"))]
      [] acc = "part" ->
            [w EXCEPT !.wire = Append(w.wire, Chunk(f, "head")),
                      !.wbuf = Append(w.wbuf, Chunk(f, "tail"))]
      [] OTHER -> [w EXCEPT !.wbuf = Append(w.wbuf, Chunk(f, "whole"))]

\* self._writer.write(data.encode()) for frame number f: the transport
\* writes to the pipe at once when nothing is buffered and buffers what
\* the pipe did not take; it appends to the buffer when something is
\* buffered.  Nothing waits for the buffer to drain.
WriterWrite(w, f, acc) ==
    IF w.wbuf # <<>>
    THEN [w EXCEPT !.wbuf = Append(w.wbuf, Chunk(f, "whole"))]
    ELSE CASE acc = "all"  ->
                [w EXCEPT !.wire = Append(w.wire, Chunk(f, "whole"))]
           [] acc = "part" ->
                [w EXCEPT !.wire = Append(w.wire, Chunk(f, "head")),
                          !.wbuf = <<Chunk(f, "tail")>>]
           [] OTHER -> [w EXCEPT !.wbuf = <<Chunk(f, "whole")>>]

----------------------------------------------------------------------------
(* The hook slot a lifecycle method looks up.                              *)
SlotOf(method) ==
    CASE method = "skill/load"          -> "on_load"
      [] method = "skill/unload"        -> "on_unload"
      [] method = "skill/sessionStart"  -> "on_session_start"
      [] method = "skill/sessionEnd"    -> "on_session_end"
      [] method = "skill/beforeMessage" -> "on_before_message"
      [] method = "skill/afterResponse" -> "on_after_response"
      [] method = "skill/tick"          -> "on_tick"
      [] OTHER                          -> "none"

InTools(name) == \E i \in 1..Len(tools) : tools[i].name = name

\* ToolsList listing the values from the last to the first.
ToolsList_Reversed(reg) ==
    [i \in 1..Len(reg) |-> [name |-> reg[Len(reg) + 1 - i].name,
                            desc |-> reg[Len(reg) + 1 - i].ver]]

\* The list tools/list returns: one item per value of self._tools, in the
\* order of the dict, with the name, the description and the schema of the
\* tool's definition.
ToolsList(reg) ==
    [i \in 1..Len(reg) |-> [name |-> reg[i].name, desc |-> reg[i].ver]]

\* BodyOf calling the hook of a lifecycle method whether its slot is set
\* or not.
BodyOf_IgnoresSlot(m) ==
    IF m.method = "tools/call"
    THEN (IF InTools(m.tool) THEN ToolBody(m.tool) ELSE <<>>)
    ELSE HookBody(SlotOf(m.method))

\* The body _dispatch awaits for a message: the tool's execute, the hook,
\* or nothing.
BodyOf(m) ==
    IF m.method = "tools/call"
    THEN (IF InTools(m.tool) THEN ToolBody(m.tool) ELSE <<>>)
    ELSE IF SlotOf(m.method) \in hooks THEN HookBody(SlotOf(m.method))
    ELSE <<>>

\* EarlyError with the "if not tool" test of tools/call left out.
EarlyError_NoToolTest(m) ==
    IF m.method \notin (Methods \ {"bogus/method"}) THEN "Unknown method"
    ELSE ""

\* The exception _dispatch raises before it invokes anything ("": none).
EarlyError(m) ==
    IF m.method = "tools/call" /\ ~InTools(m.tool) THEN "Unknown tool"
    ELSE IF m.method \notin (Methods \ {"bogus/method"}) THEN "Unknown method"
    ELSE ""

\* DispatchResult with "result if result else None" for the message hooks.
DispatchResult_Truthy(m) ==
    CASE m.method = "tools/list" ->
            ResultFrame(m.id, "tools", FALSE, ToolsList(tools))
      [] m.method = "tools/call" ->
            ResultFrame(m.id, m.content, m.iserr, <<>>)
      [] m.method \in {"skill/beforeMessage", "skill/afterResponse"} ->
            ResultFrame(m.id,
                        IF SlotOf(m.method) \in hooks /\ m.ret = "str:text"
                        THEN m.ret ELSE "null",
                        FALSE, <<>>)
      [] OTHER -> ResultFrame(m.id, "ok", FALSE, <<>>)

\* The value _dispatch returns when the body has run to its end.
DispatchResult(m) ==
    CASE m.method = "tools/list" ->
            ResultFrame(m.id, "tools", FALSE, ToolsList(tools))
      [] m.method = "tools/call" ->
            ResultFrame(m.id, m.content, m.iserr, <<>>)
      [] m.method \in {"skill/beforeMessage", "skill/afterResponse"} ->
            ResultFrame(m.id,
                        IF SlotOf(m.method) \in hooks /\ m.ret # "nostr"
                        THEN m.ret ELSE "null",
                        FALSE, <<>>)
      [] OTHER -> ResultFrame(m.id, "ok", FALSE, <<>>)

----------------------------------------------------------------------------
(* The part of the state a running coroutine changes, as a record.         *)
Snapshot ==
    [pc |-> pc, cur |-> cur, prog |-> prog, waitId |-> waitId,
     pending |-> pending, nextId |-> nextId, calls |-> calls,
     spawned |-> spawned, out |-> out, errlog |-> errlog]

\* IssueCall with the increment of _next_id left out.
IssueCall_NoIncrement(s, method, owner) ==
    [s EXCEPT !.pending = s.pending \cup {s.nextId},
              !.calls = Append(s.calls,
                           [method |-> method, owner |-> owner,
                            fut |-> "waiting", outcome |-> "none",
                            late |-> exitScheduled]),
              !.out = Append(s.out, CallFrame(s.nextId, method))]

\* _reverse_rpc up to its await: allocate the id, store the future, write
\* the request frame.
IssueCall(s, method, owner) ==
    [s EXCEPT !.nextId = s.nextId + 1,
              !.pending = s.pending \cup {s.nextId},
              !.calls = Append(s.calls,
                           [method |-> method, owner |-> owner,
                            fut |-> "waiting", outcome |-> "none",
                            late |-> exitScheduled]),
              !.out = Append(s.out, CallFrame(s.nextId, method))]

\* _reverse_rpc when json.dumps raises in _write_message: the id is
\* allocated and the future stored, no frame is written, and the TypeError
\* leaves _reverse_rpc before wait_for; nothing removes the entry.
IssueCallUnencodable(s, method, owner) ==
    [s EXCEPT !.nextId = s.nextId + 1,
              !.pending = s.pending \cup {s.nextId},
              !.calls = Append(s.calls,
                           [method |-> method, owner |-> owner,
                            fut |-> "orphan", outcome |-> "unsent",
                            late |-> exitScheduled])]

\* Finish with the "msg_id is not None" tests left out.
Finish_NoIdTest(s, exc) ==
    LET m == s.cur
        frame == IF exc = "" THEN DispatchResult(m)
                 ELSE ErrorFrame(m.id, InternalError, exc)
    IN [s EXCEPT !.out = Append(s.out, frame),
                 !.pc = "read", !.cur = NoMsg, !.prog = <<>>,
                 !.waitId = 0]

\* Finish answering a failed dispatch with the value of a successful one.
Finish_SwallowsError(s, exc) ==
    LET m == s.cur
    IN [s EXCEPT !.out = IF m.id # "null"
                         THEN Append(s.out, DispatchResult(m)) ELSE s.out,
                 !.errlog = IF exc # "" /\ m.id = "null"
                            THEN Append(s.errlog, "notification error")
                            ELSE s.errlog,
                 !.pc = "read", !.cur = NoMsg, !.prog = <<>>,
                 !.waitId = 0]

\* Finish without the except clause: the exception leaves _handle_message.
Finish_ErrorEscapes(s, exc) ==
    LET m == s.cur
    IN IF exc # ""
       THEN [s EXCEPT !.pc = "crashed", !.cur = NoMsg, !.prog = <<>>,
                      !.waitId = 0, !.spawned = <<>>]
       ELSE [s EXCEPT !.out = IF m.id # "null"
                              THEN Append(s.out, DispatchResult(m))
                              ELSE s.out,
                      !.pc = "read", !.cur = NoMsg, !.prog = <<>>,
                      !.waitId = 0]

\* Finish with "if msg_id:" for "if msg_id is not None:".
Finish_TruthyId(s, exc) ==
    LET m == s.cur
        frame == IF exc = "" THEN DispatchResult(m)
                 ELSE ErrorFrame(m.id, InternalError, exc)
        hasId == m.id \notin {"null"} \cup FalsyIds
    IN [s EXCEPT !.out = IF hasId THEN Append(s.out, frame) ELSE s.out,
                 !.errlog = IF exc # "" /\ ~hasId
                            THEN Append(s.errlog, "notification error")
                            ELSE s.errlog,
                 !.pc = "read", !.cur = NoMsg, !.prog = <<>>,
                 !.waitId = 0]

\* The end of _handle_message: the try block's _send_response, or the
\* except block's _send_error / log (exc is str(exc), "" if none was raised).
Finish(s, exc) ==
    LET m == s.cur
        frame == IF exc = "" THEN DispatchResult(m)
                 ELSE ErrorFrame(m.id, InternalError, exc)
    IN [s EXCEPT !.out = IF m.id # "null" THEN Append(s.out, frame)
                         ELSE s.out,
                 !.errlog = IF exc # "" /\ m.id = "null"
                            THEN Append(s.errlog, "notification error")
                            ELSE s.errlog,
                 !.pc = "read", !.cur = NoMsg, !.prog = <<>>,
                 !.waitId = 0]

\* EnsureFuture running the coroutine at once, up to its await.
EnsureFuture_RunsNow(s, method) == IssueCall(s, method, "task")

\* ctx.set_state / ctx.emit_event: asyncio.ensure_future(server.set_state(..))
\* only schedules the coroutine; it starts when the main task next lets
\* the event loop run.
EnsureFuture(s, method) == [s EXCEPT !.spawned = Append(s.spawned, method)]

\* Run the body of the main task from the head of s.prog to its next
\* suspension point or to its end.
RECURSIVE RunBody(_)
RunBody(s) ==
    IF s.prog = <<>> THEN Finish(s, "")
    ELSE LET o == Head(s.prog) IN
         CASE o.op = "fire" ->
                RunBody(EnsureFuture([s EXCEPT !.prog = Tail(s.prog)], o.m))
           [] o.op = "raise" -> Finish(s, "handler failed")
           [] o.op = "ctx" ->
                IF s.cur.hasCtx THEN RunBody([s EXCEPT !.prog = Tail(s.prog)])
                ELSE Finish(s, "'__context__'")
           [] o.op = "await_raw" ->
                Finish(IssueCallUnencodable(s, o.m, "main"),
                       "not JSON serializable")
           [] o.op = "register" ->
                \* _Tools.register is "pass": self._tools is not touched
                RunBody([s EXCEPT !.prog = Tail(s.prog)])
           [] OTHER ->
                [IssueCall(s, o.m, "main") EXCEPT !.pc = "await",
                                                  !.waitId = s.nextId]

\* Assign a snapshot to the variables it covers; a frame the step appended
\* to the outbound stream goes through the writer (_write_message).
Commit(s) ==
    /\ pc' = s.pc
    /\ cur' = s.cur
    /\ prog' = s.prog
    /\ waitId' = s.waitId
    /\ pending' = s.pending
    /\ nextId' = s.nextId
    /\ calls' = s.calls
    /\ spawned' = s.spawned
    /\ out' = s.out
    /\ errlog' = s.errlog
    /\ \E acc \in Accepts :
          LET w == [wire |-> wire, wbuf |-> wbuf]
              w1 == IF Len(s.out) > Len(out)
                    THEN WriterWrite(w, Len(s.out), acc) ELSE w
          IN wire' = w1.wire /\ wbuf' = w1.wbuf

\* asyncio.run on its way out: every task still alive is cancelled; the
\* pending table is not touched.
CancelAll(s, how) ==
    [s EXCEPT !.pc = how,
              !.spawned = <<>>,
              !.calls = [i \in DOMAIN s.calls |->
                           IF s.calls[i].outcome = "none"
                           THEN [s.calls[i] EXCEPT !.outcome = "aborted"]
                           ELSE s.calls[i]]]

----------------------------------------------------------------------------
(* Bounding the host's input: the reverse calls a line can lead to.        *)
RECURSIVE CountOps(_)
CountOps(body) ==
    IF body = <<>> THEN 0
    ELSE (IF Head(body).op \in {"await", "try_await", "fire", "await_raw"}
          THEN 1 ELSE 0)
         + CountOps(Tail(body))

CallsOf(l) ==
    IF l.kind = "req"
    THEN CountOps(BodyOf([id |-> l.id, method |-> l.method, tool |-> l.tool]))
    ELSE 0

RECURSIVE CallsOfQueue(_)
CallsOfQueue(q) ==
    IF q = <<>> THEN 0 ELSE CallsOf(Head(q)) + CallsOfQueue(Tail(q))

CallBudgetUsed ==
    (nextId - FirstId) + Len(spawned) + CallsOfQueue(inq)
    + (IF pc = "await" THEN CountOps(Tail(prog)) ELSE 0)

Alive == pc \in {"read", "await"}

----------------------------------------------------------------------------
(* The host.                                                               *)

\* The host writes one more line to the skill's stdin.
HostWrite(l) ==
    /\ ~closed
    /\ nsent < MaxLines
    /\ Len(inq) < MaxBuf
    /\ CallBudgetUsed + CallsOf(l) <= MaxCalls
    /\ inq' = Append(inq, l)
    /\ nsent' = nsent + 1
    /\ UNCHANGED <<closed, pc, cur, prog, waitId, tools, hooks, pending,
                   nextId, calls, spawned, out, errlog, dataDir,
                   exitScheduled, ninvoked, menu, tsk, line, hookRet,
                   wire, wbuf>>

\* The host closes the skill's stdin.
HostClose ==
    /\ ~closed
    /\ closed' = TRUE
    /\ UNCHANGED <<inq, nsent, pc, cur, prog, waitId, tools, hooks, pending,
                   nextId, calls, spawned, out, errlog, dataDir,
                   exitScheduled, ninvoked, menu, tsk, line, hookRet,
                   wire, wbuf>>

----------------------------------------------------------------------------
(* _handle_message.                                                        *)

\* HandleResponse with the "not future.done()" test left out.
HandleResponse_NoDoneTest(s, l) ==
    IF l.rid \in s.pending
    THEN [s EXCEPT !.pending = s.pending \ {l.rid},
                   !.calls[l.rid].fut =
                       IF l.err = "none" THEN "result" ELSE "error"]
    ELSE s

\* HandleResponse looking the call up by its id alone, without the pending
\* table: any Response settles the call that carries its id.
HandleResponse_NoPendingTable(s, l) ==
    IF l.rid \in DOMAIN s.calls
    THEN [s EXCEPT !.pending = s.pending \ {l.rid},
                   !.calls[l.rid].fut =
                       IF l.err = "none" THEN "result" ELSE "error"]
    ELSE s

\* HandleResponse settling the oldest entry of the pending table, whatever
\* id the Response carries.
HandleResponse_Oldest(s, l) ==
    IF s.pending # {}
    THEN LET id == CHOOSE i \in s.pending : \A j \in s.pending : i <= j IN
         [s EXCEPT !.pending = s.pending \ {id},
                   !.calls[id].fut =
                       IF l.err = "none" THEN "result" ELSE "error"]
    ELSE s

\* The Response branch: pop the entry, settle the future if it is not done.
\* An error member that is not an object raises at message["error"].get,
\* after the pop.
HandleResponse(s, l) ==
    IF l.rid \in s.pending
    THEN LET popped == [s EXCEPT !.pending = s.pending \ {l.rid}] IN
         IF s.calls[l.rid].fut = "waiting"
         THEN (IF l.err = "bad" THEN CancelAll(popped, "crashed")
               ELSE [popped EXCEPT
                       !.calls[l.rid].fut =
                           IF l.err = "obj" THEN "error" ELSE "result"])
         ELSE IF s.calls[l.rid].fut = "orphan"
         \* a future nobody awaits: settling it is seen by no one
         THEN (IF l.err = "bad" THEN CancelAll(popped, "crashed")
               ELSE popped)
         ELSE popped
    ELSE s

\* The Request / Notification branch up to the first suspension point of
\* the handler.  A hook is called with self._create_context(); a tool is
\* called with the arguments of the Request and nothing else.
HandleRequest(s, l, ret) ==
    LET m == [id |-> l.id, method |-> l.method, tool |-> l.tool,
              ret |-> ret, content |-> l.tool, iserr |-> FALSE,
              hasCtx |-> (l.method # "tools/call")]
        s1 == [s EXCEPT !.cur = m]
    IN IF EarlyError(m) # "" THEN Finish(s1, EarlyError(m))
       ELSE RunBody([s1 EXCEPT !.prog = BodyOf(m)])

\* IsResponse taking a message that carries a method for a Request.
IsResponse_NoMethod(l) == l.kind = "resp" /\ l.method = ""

\* "result" in message or "error" in message, for a line that parsed to an
\* object: kind "resp" is an object with one of the two members, kind
\* "req" an object with neither.
IsResponse(l) == l.kind = "resp"

\* the line is an object that _handle_message dispatches by its method
IsRequest(l) == l.kind \in {"req", "resp"} /\ ~IsResponse(l)

\* CanRead with a reader that runs beside the handler it started.
CanRead_Concurrent == pc \in {"read", "await"}

\* The main task is at reader.readline(): _run awaits _handle_message, so
\* it comes back to readline only when the dispatch has returned.
CanRead == pc = "read"

\* AtEOF for a readline that reports the end as soon as the host has
\* closed the stream.
AtEOF_Early == closed

\* readline returns b"" only when the stream is closed and every byte
\* written before the close has been returned.
AtEOF == inq = <<>> /\ closed

\* One turn of the loop of _run on a line that is there: readline, decode,
\* strip, json.loads, _handle_message up to its first suspension point.
ReadLine ==
    /\ CanRead
    /\ inq # <<>>
    /\ LET l == Head(inq) IN
       /\ inq' = Tail(inq)
       /\ \E ret \in (IF IsRequest(l) /\ l.method \in
                          {"skill/beforeMessage", "skill/afterResponse"}
                      THEN HookReturns ELSE {"nostr"}) :
          /\ hookRet' = IF IsRequest(l) /\ SlotOf(l.method) \in hooks
                              /\ l.method \in {"skill/beforeMessage",
                                                "skill/afterResponse"}
                           THEN ret ELSE hookRet
          /\ Commit(CASE l.kind = "blank" -> Snapshot
                     [] l.kind = "badjson" ->
                          [Snapshot EXCEPT
                              !.errlog = Append(errlog, "parse error")]
                     [] l.kind \in {"badutf8", "nonobj", "respbadid"} ->
                          CancelAll(Snapshot, "crashed")
                     [] IsResponse(l) -> HandleResponse(Snapshot, l)
                     [] OTHER -> HandleRequest(Snapshot, l, ret))
       /\ dataDir' = IF IsRequest(l) /\ l.method = "skill/load"
                        /\ l.dir # ""
                     THEN l.dir ELSE dataDir
       /\ exitScheduled' = (exitScheduled
                            \/ (IsRequest(l) /\ l.method = "skill/shutdown"))
       /\ ninvoked' = IF IsRequest(l) /\ l.method = "tools/call"
                         /\ InTools(l.tool)
                      THEN ninvoked + 1 ELSE ninvoked
    /\ line' = Head(inq)
    /\ UNCHANGED <<closed, nsent, tools, hooks, menu, tsk>>

\* readline returns b"" at EOF: the loop breaks, _run returns and
\* asyncio.run cancels what is left.
ReadEOF ==
    /\ CanRead
    /\ AtEOF
    /\ Commit(CancelAll(Snapshot, "done"))
    /\ UNCHANGED <<inq, closed, nsent, tools, hooks, dataDir, exitScheduled,
                   ninvoked, menu, tsk, line, hookRet>>

----------------------------------------------------------------------------
(* Reverse calls.                                                          *)

\* The 30 s timer of wait_for fires: the future is cancelled.  Timers fire
\* in the order the calls were issued; a call issued after sys.exit was
\* armed (0.1 s) cannot reach its timeout.
TimeoutFire(id) ==
    /\ Alive
    /\ id \in DOMAIN calls
    /\ calls[id].fut = "waiting"
    /\ ~calls[id].late
    /\ \A j \in 1..(id - 1) : calls[j].fut # "waiting"
    /\ calls' = [calls EXCEPT ![id].fut = "cancelled"]
    /\ UNCHANGED <<inq, closed, nsent, pc, cur, prog, waitId, tools, hooks,
                   pending, nextId, spawned, out, errlog, dataDir,
                   exitScheduled, ninvoked, menu, tsk, line, hookRet,
                   wire, wbuf>>

\* Settle with the pop of the except clause left out.
Settle_KeepsEntry(s, id) ==
    [s EXCEPT !.calls[id].outcome =
                  IF s.calls[id].fut = "cancelled" THEN "timeout"
                  ELSE s.calls[id].fut]

\* Settle writing the request frame again when the call has timed out.
Settle_Resends(s, id) ==
    LET f == s.calls[id].fut IN
    [s EXCEPT !.calls[id].outcome =
                  IF f = "cancelled" THEN "timeout" ELSE f,
              !.pending = IF f = "cancelled" THEN s.pending \ {id}
                          ELSE s.pending,
              !.out = IF f = "cancelled"
                      THEN Append(s.out, CallFrame(id, s.calls[id].method))
                      ELSE s.out]

\* What the caller of _reverse_rpc sees when wait_for returns or raises;
\* the except clause pops the entry.
Settle(s, id) ==
    LET f == s.calls[id].fut IN
    [s EXCEPT !.calls[id].outcome =
                  IF f = "cancelled" THEN "timeout" ELSE f,
              !.pending = IF f = "cancelled" THEN s.pending \ {id}
                          ELSE s.pending]

\* The main task resumes from the reverse call it awaits.
MainResume ==
    /\ pc = "await"
    /\ calls[waitId].fut # "waiting"
    /\ LET s == Settle(Snapshot, waitId)
           o == Head(prog)
           f == calls[waitId].fut
           why == IF f = "cancelled" THEN "Reverse RPC timeout"
                  ELSE "host error"
       IN Commit(IF f = "result"
                 THEN RunBody([s EXCEPT !.prog = Tail(prog)])
                 ELSE IF o.op = "try_await"
                 THEN Finish([s EXCEPT !.cur.content = "failed",
                                       !.cur.iserr = TRUE], "")
                 ELSE Finish(s, why))
    /\ UNCHANGED <<inq, closed, nsent, tools, hooks, dataDir, exitScheduled,
                   ninvoked, menu, tsk, line, hookRet>>

\* The event loop starts the oldest detached task: server.set_state or
\* server.emit_event runs up to the await in _reverse_rpc.
TaskStart ==
    /\ Alive
    /\ spawned # <<>>
    /\ Commit(IssueCall([Snapshot EXCEPT !.spawned = Tail(spawned)],
                        Head(spawned), "task"))
    /\ UNCHANGED <<inq, closed, nsent, tools, hooks, dataDir, exitScheduled,
                   ninvoked, menu, tsk, line, hookRet>>

\* A detached task resumes from its reverse call and ends.
TaskResume(id) ==
    /\ Alive
    /\ id \in DOMAIN calls
    /\ calls[id].owner = "task"
    /\ calls[id].fut # "waiting"
    /\ calls[id].outcome = "none"
    /\ Commit(Settle(Snapshot, id))
    /\ UNCHANGED <<inq, closed, nsent, tools, hooks, dataDir, exitScheduled,
                   ninvoked, menu, tsk, line, hookRet>>

\* The pipe is writable again and the event loop, while it runs, writes
\* the oldest buffered chunk to it.
Flush ==
    /\ Alive
    /\ wbuf # <<>>
    /\ wire' = Append(wire, Head(wbuf))
    /\ wbuf' = Tail(wbuf)
    /\ UNCHANGED <<inq, closed, nsent, pc, cur, prog, waitId, tools, hooks,
                   pending, nextId, calls, spawned, out, errlog, dataDir,
                   exitScheduled, ninvoked, menu, tsk, line, hookRet>>

\* The timer armed by skill/shutdown fires: sys.exit(0).  What the
\* transport still buffers is never written.
Exit ==
    /\ Alive
    /\ exitScheduled
    /\ Commit(CancelAll(Snapshot, "exited"))
    /\ UNCHANGED <<inq, closed, nsent, tools, hooks, dataDir, exitScheduled,
                   ninvoked, menu, tsk, line, hookRet>>

----------------------------------------------------------------------------
(* The tool-skill example (src/examples/tool-skill/skill.py): a loop over  *)
(* the lines of stdin that prints one JSON line per request.               *)

\* A line of the example's stdin.  kind "req" is a JSON object; params is
\* "obj" for an object (or an absent member) and "null" for null.
TsLine(k, id, m, t, prm) ==
    [kind |-> k, id |-> id, method |-> m, tool |-> t, params |-> prm]
TsReq(id, m, t, prm) == TsLine("req", id, m, t, prm)
TsRaw(k) == TsLine(k, "null", "", "", "obj")

TsMethods == {"initialize", "tools/call", "lifecycle/load", "shutdown",
              "bogus/method"}

ToolSkillLines ==
    {TsRaw(k) : k \in {"blank", "badjson", "nonobj"}}
    \cup {TsReq(id, m, "", "obj") : id \in {"null", "1"},
                                    m \in TsMethods \ {"tools/call"}}
    \cup {TsReq("1", "tools/call", t, prm) : t \in {"gas_estimate", "other"},
                                             prm \in {"obj", "null"}}

\* what the loop prints: a result or an error object with the request's id
TsResult(id, body, isErr) ==
    [t |-> "result", id |-> id, code |-> 0, body |-> body, isErr |-> isErr]
TsError(id, code) ==
    [t |-> "error", id |-> id, code |-> code, body |-> "", isErr |-> FALSE]
\* the value standing for an exception that leaves the function
TsRaise == [t |-> "raise", id |-> "null", code |-> 0, body |-> "",
            isErr |-> FALSE]

ParseError == -32700

\* handle_request(request) for the value json.loads returned.  request.get
\* raises AttributeError on a value that is not an object, params.get on a
\* params member that is null.
handle_request(request) ==
    IF request.kind # "req" THEN TsRaise
    ELSE CASE request.method = "initialize" ->
                TsResult(request.id, "metadata", FALSE)
           [] request.method = "tools/call" ->
                IF request.params = "null" THEN TsRaise
                ELSE IF request.tool = "gas_estimate"
                THEN TsResult(request.id, "estimate", FALSE)
                ELSE TsResult(request.id, "Unknown tool", TRUE)
           [] request.method = "lifecycle/load" ->
                TsResult(request.id, "ok", FALSE)
           [] request.method = "shutdown" ->
                TsResult(request.id, "ok", FALSE)
           [] OTHER -> TsError(request.id, MethodNotFound)

\* the loop has started and has read nothing
ToolSkillIdle ==
    [inq |-> <<>>, closed |-> FALSE, nsent |-> 0, out |-> <<>>,
     pc |-> "loop"]

\* The host writes a line to the example's stdin.
ToolSkillWrite(l) ==
    /\ ~tsk.closed
    /\ tsk.nsent < MaxLines
    /\ Len(tsk.inq) < MaxBuf
    /\ tsk' = [tsk EXCEPT !.inq = Append(tsk.inq, l), !.nsent = tsk.nsent + 1]
    /\ UNCHANGED bridgeVars

\* The host closes the example's stdin.
ToolSkillClose ==
    /\ ~tsk.closed
    /\ tsk' = [tsk EXCEPT !.closed = TRUE]
    /\ UNCHANGED bridgeVars

\* One turn of "for line in sys.stdin" in main: strip, skip a blank line,
\* json.loads, handle_request, print, break after shutdown.
ToolSkillRead ==
    /\ tsk.pc = "loop"
    /\ tsk.inq # <<>>
    /\ LET l == Head(tsk.inq)
           t1 == [tsk EXCEPT !.inq = Tail(tsk.inq)]
           response == handle_request(l)
       IN tsk' = CASE l.kind = "blank" -> t1
                  [] l.kind = "badjson" ->
                       [t1 EXCEPT !.out = Append(tsk.out,
                                              TsError("null", ParseError))]
                  [] response = TsRaise -> [t1 EXCEPT !.pc = "crashed"]
                  [] OTHER ->
                       [t1 EXCEPT !.out = Append(tsk.out, response),
                                  !.pc = IF l.method = "shutdown"
                                         THEN "done" ELSE "loop"]
    /\ UNCHANGED bridgeVars

\* stdin is exhausted: the for loop ends and main returns.
ToolSkillEOF ==
    /\ tsk.pc = "loop"
    /\ tsk.inq = <<>>
    /\ tsk.closed
    /\ tsk' = [tsk EXCEPT !.pc = "done"]
    /\ UNCHANGED bridgeVars

----------------------------------------------------------------------------
AllHooks == HookSlots
\* The runs explored: the host's traffic and the hook slots that are set.
Sessions == {<<"await", AllHooks>>, <<"reverse", AllHooks>>,
             <<"reverse", {}>>,
             <<"dispatch", AllHooks>>, <<"stray", AllHooks>>,
             <<"lifecycle", AllHooks>>, <<"lifecycle", {}>>,
             <<"load", AllHooks>>, <<"load", {}>>,
             <<"shutdown", AllHooks>>, <<"backpressure", AllHooks>>,
             <<"encode", AllHooks>>, <<"ids", AllHooks>>}

Init ==
    /\ inq = <<>>
    /\ closed = FALSE
    /\ nsent = 0
    /\ pc = "read"
    /\ cur = NoMsg
    /\ prog = <<>>
    /\ waitId = 0
    /\ tools = Registry(SkillTools)
    /\ \E ses \in Sessions : menu = ses[1] /\ hooks = ses[2]
    /\ pending = {}
    /\ nextId = FirstId
    /\ calls = <<>>
    /\ spawned = <<>>
    /\ out = <<>>
    /\ errlog = <<>>
    /\ dataDir = ""
    /\ exitScheduled = FALSE
    /\ ninvoked = 0
    /\ line = NoLine
    /\ hookRet = "none"
    /\ wire = <<>>
    /\ wbuf = <<>>
    /\ tsk = ToolSkillIdle

Next ==
    \/ \E l \in Traffic(menu) : HostWrite(l)
    \/ HostClose
    \/ ReadLine
    \/ ReadEOF
    \/ \E id \in 1..MaxCalls + 1 : TimeoutFire(id)
    \/ MainResume
    \/ TaskStart
    \/ \E id \in 1..MaxCalls + 1 : TaskResume(id)
    \/ Flush
    \/ Exit

Spec == Init /\ [][Next]_vars

\* The tool-skill example run on its own: the bridge is not started.
ToolSkillInit == Init /\ menu = "dispatch"

ToolSkillNext ==
    \/ \E l \in ToolSkillLines : ToolSkillWrite(l)
    \/ ToolSkillClose
    \/ ToolSkillRead
    \/ ToolSkillEOF

ToolSkillSpec == ToolSkillInit /\ [][ToolSkillNext]_vars

\* The event loop while the process lives: time passes, so an armed timer
\* (the 30 s of wait_for, the 0.1 s of sys.exit) fires; a task that can run
\* is run; a line or an EOF that is there is read.  Nothing obliges the
\* host to write, to answer or to close.
FairSpec ==
    /\ Spec
    /\ \A id \in 1..MaxCalls + 1 : WF_vars(TimeoutFire(id))
    /\ \A id \in 1..MaxCalls + 1 : WF_vars(TaskResume(id))
    /\ WF_vars(MainResume)
    /\ WF_vars(TaskStart)
    /\ WF_vars(ReadLine)
    /\ WF_vars(ReadEOF)
    /\ WF_vars(Exit)

TypeOK ==
    /\ pc \in {"read", "await", "done", "crashed", "exited"}
    /\ nextId = Len(calls) + FirstId
    /\ Len(inq) <= MaxBuf
    /\ hookRet \in HookReturns \cup {"none"}
    /\ \A i \in 1..Len(wire) : wire[i].f \in 1..Len(out)
    /\ \A i \in 1..Len(wbuf) : wbuf[i].f \in 1..Len(out)
    /\ menu # "backpressure" => wbuf = <<>> /\ Len(wire) = Len(out)

----------------------------------------------------------------------------
(* Vocabulary of the properties.                                           *)

\* this step is a turn of the read loop
Reading == Len(inq') < Len(inq)

\* this step ends the dispatch of a Request or Notification
Completes ==
    /\ pc' = "read"
    /\ \/ pc = "await"
       \/ pc = "read" /\ Reading /\ Head(inq).kind = "req"

\* the id of the message whose dispatch this step ends
Served == IF pc = "await" THEN cur.id ELSE Head(inq).id

NewFrames == SubSeq(out', Len(out) + 1, Len(out'))
NewResponses == SelectSeq(NewFrames, IsResponseFrame)

IsCallFrame(f) == f.t = "call"
CallFrames == SelectSeq(out, IsCallFrame)

InInq(l) == \E i \in 1..Len(inq) : inq[i] = l

\* the method of the message whose dispatch this step ends
ServedMethod == IF pc = "await" THEN cur.method ELSE Head(inq).method

HasRaise(body) == \E i \in 1..Len(body) : body[i].op = "raise"

\* the handler or hook whose dispatch this step ends has failed
HandlerFails ==
    IF pc = "await"
    THEN calls[waitId].fut # "result" /\ Head(prog).op = "await"
    ELSE /\ SlotOf(ServedMethod) \in hooks
         /\ HasRaise(HookBody(SlotOf(ServedMethod)))

HookMethods == {"skill/load", "skill/unload", "skill/sessionStart",
                "skill/sessionEnd", "skill/tick"}

\* frame number k of the outbound stream is on the pipe, all of it
Delivered(k) ==
    \/ \E i \in 1..Len(wire) : wire[i] = Chunk(k, "whole")
    \/ \E i \in 1..Len(wire) : wire[i] = Chunk(k, "tail")

\* the Response to a skill/shutdown Request
ShutdownAck == ResultFrame("a", "ok", FALSE, <<>>)

----------------------------------------------------------------------------
(* C1: a reverse call awaited inside a dispatch whose Response the host    *)
(* has written before the timeout is settled by that Response: its future  *)
(* is never cancelled by the timer while the Response waits in the stream. *)
C1_AwaitedCallSettledByResponse ==
    [][\A id \in DOMAIN calls :
          (/\ calls[id].owner = "main"
           /\ calls[id].fut = "waiting"
           /\ InInq(Resp(id, "none")))
          => calls'[id].fut # "cancelled"]_vars

(* C2: the outbound stream only grows; a step writes a Response frame      *)
(* exactly when it ends the dispatch of a message with a non-null id, and  *)
(* then it writes one frame, carrying that id; the dispatch of a           *)
(* Notification writes no Response frame.                                  *)
C2_ExactlyOneResponse ==
    [][/\ Len(out') >= Len(out)
       /\ SubSeq(out', 1, Len(out)) = out
       /\ IF Completes /\ Served # "null"
          THEN Len(NewResponses) = 1 /\ NewResponses[1].id = Served
          ELSE NewResponses = <<>>]_vars

\* a Request was answered with a result, another with an error, and a
\* Notification whose handler raised was only logged
C2_Witness ==
    /\ \E i, j \in 1..Len(out) :
          /\ out[i].t = "result" /\ out[i].id = "a"
          /\ out[j].t = "error" /\ out[j].id = "a"
    /\ \E k \in 1..Len(errlog) : errlog[k] = "notification error"
    /\ pc = "read"

(* C3: a reverse call is settled once: once its future is done it never    *)
(* changes, the outcome its caller saw never changes and is the one that   *)
(* settled the future, and a Response read for a call whose future is done *)
(* writes nothing and does not stop the loop.                              *)
C3_SettledExactlyOnce ==
    [][\A id \in DOMAIN calls :
          /\ calls[id].fut # "waiting" => calls'[id].fut = calls[id].fut
          /\ calls[id].outcome \in {"result", "error", "timeout"}
                => calls'[id] = calls[id]
          /\ calls'[id].outcome \in {"result", "error"}
                => calls'[id].outcome = calls'[id].fut
          /\ calls'[id].outcome = "timeout" => calls'[id].fut = "cancelled"
          /\ (/\ Reading
              /\ Head(inq).kind = "resp"
              /\ Head(inq).rid = id
              /\ calls[id].fut # "waiting")
                => pc' = pc /\ out' = out]_vars

\* the timer of call 1 fired, then its Response was read and found the
\* future done: the entry is popped and the caller has yet to resume
C3_Witness ==
    /\ 1 \in DOMAIN calls
    /\ calls[1].fut = "cancelled"
    /\ calls[1].outcome = "none"
    /\ 1 \notin pending
    /\ line.kind = "resp" /\ line.rid = 1
    /\ pc = "read"

(* C4: when the loop has ended on EOF no reverse call is left in the       *)
(* pending table and every call that was outstanding has been rejected     *)
(* with a "transport closed" failure.                                      *)
C4_ShutdownRejectsPending ==
    pc = "done" =>
        /\ pending = {}
        /\ \A id \in DOMAIN calls :
              calls[id].outcome \in {"result", "error", "timeout",
                                     "transport closed"}

(* C5: a Request with a method that is not implemented is answered with    *)
(* an error whose code is -32601.                                          *)
C5_UnknownMethodIsMethodNotFound ==
    \A i \in 1..Len(out) :
        (out[i].t = "error" /\ out[i].body = "Unknown method")
            => out[i].code = MethodNotFound

(* C6: reading a blank line or a line that cannot be parsed as JSON writes *)
(* no frame, leaves the pending table, the registry and the data directory *)
(* alone, and leaves the loop reading.                                     *)
C6_UnparseableLineDropped ==
    [][(Reading /\ Head(inq).kind \in {"blank", "badjson", "badutf8"})
          => /\ out' = out
             /\ pending' = pending
             /\ tools' = tools
             /\ dataDir' = dataDir
             /\ pc' = "read"]_vars

(* C7: no line ends the loop: the loop is never left by an exception.      *)
C7_NoLineTerminatesLoop == pc # "crashed"

(* C8: a tools/call Request for a name that is not registered is answered  *)
(* in the same turn with one error frame for its id; no handler runs, no   *)
(* reverse call starts, and the registry and the pending table are as      *)
(* before.                                                                 *)
C8_UnknownToolAnswered ==
    [][(/\ Reading
        /\ Head(inq).kind = "req"
        /\ Head(inq).method = "tools/call"
        /\ ~InTools(Head(inq).tool)
        /\ Head(inq).id # "null")
          => /\ Len(out') = Len(out) + 1
             /\ out'[Len(out')].t = "error"
             /\ out'[Len(out')].id = Head(inq).id
             /\ SubSeq(out', 1, Len(out)) = out
             /\ pc' = "read"
             /\ ninvoked' = ninvoked
             /\ tools' = tools
             /\ pending' = pending
             /\ calls' = calls
             /\ spawned' = spawned]_vars

\* the Request for the unregistered tool has been answered
C8_Witness ==
    /\ line.kind = "req" /\ line.method = "tools/call" /\ line.tool = "ghost"
    /\ line.id = "a"
    /\ out # <<>>
    /\ out[Len(out)] = ErrorFrame("a", InternalError, "Unknown tool")
    /\ pc = "read"

(* C9: a call whose caller saw the timeout has no entry in the pending     *)
(* table; a Response changes the future of no call but the one whose id it *)
(* carries; and a Response read after the timer of its call fired changes  *)
(* no call, writes nothing and does not stop the loop.  A handler that     *)
(* awaits the call and does not catch the failure has its Request answered *)
(* with the timeout as the error message.                                  *)
C9_TimeoutThenLateResponse ==
    [][/\ \A id \in DOMAIN calls' :
             calls'[id].outcome = "timeout"
                => id \notin pending' /\ calls'[id].fut = "cancelled"
       /\ (Reading /\ Head(inq).kind = "resp")
             => /\ \A j \in DOMAIN calls :
                      j # Head(inq).rid => calls'[j].fut = calls[j].fut
                /\ (Head(inq).rid \notin DOMAIN calls
                    \/ calls[Head(inq).rid].fut = "cancelled")
                      => /\ calls' = calls
                         /\ out' = out
                         /\ pc' = pc
                         /\ pending' = pending \ {Head(inq).rid}
       /\ (/\ pc = "await" /\ pc' = "read"
           /\ calls[waitId].fut = "cancelled"
           /\ Head(prog).op = "await"
           /\ cur.id # "null")
             => out'[Len(out')] =
                   ErrorFrame(cur.id, InternalError, "Reverse RPC timeout")]_vars

\* call 1 timed out at its caller, its Response came late and was read
\* while call 2 was waiting; call 2 is still waiting
C9_Witness ==
    /\ Len(calls) >= 2
    /\ calls[1].outcome = "timeout"
    /\ 1 \notin pending
    /\ line.kind = "resp" /\ line.rid = 1 /\ line.err = "none"
    /\ calls[2].fut = "waiting"
    /\ 2 \in pending

(* C10: the reverse calls take the ids 1, 2, 3, ... in the order they are  *)
(* made and the next id is one more than the number of ids allocated; the  *)
(* request frames carry, in the order they were written, strictly          *)
(* increasing ids, one frame for every call whose request could be         *)
(* encoded.                                                                *)
C10_IdsIncrease ==
    /\ nextId = FirstId + Len(calls)
    /\ \A i \in 1..Len(CallFrames) :
          /\ CallFrames[i].cid \in FirstId..(nextId - 1)
          /\ calls[CallFrames[i].cid].outcome # "unsent"
          /\ \A j \in 1..(i - 1) : CallFrames[j].cid < CallFrames[i].cid
    /\ Len(CallFrames)
          = Cardinality({id \in DOMAIN calls : calls[id].outcome # "unsent"})

\* two detached tasks have their calls outstanding at once
C10_Witness ==
    /\ Len(calls) >= 2
    /\ calls[1].owner = "task" /\ calls[1].fut = "waiting"
    /\ calls[2].owner = "task" /\ calls[2].fut = "waiting"

(* C11: a Response whose id has no entry in the pending table, or whose    *)
(* call is already settled, is a silent no-op: it writes no frame and logs *)
(* nothing, changes no call (so the first settlement stands), leaves every *)
(* other pending entry, the next id and the loop as they are; and a call   *)
(* allocated later starts waiting, whatever Responses carried its id       *)
(* before.                                                                 *)
C11_ResolveIdempotent ==
    [][/\ (/\ Reading
           /\ Head(inq).kind = "resp"
           /\ (\/ Head(inq).rid \notin pending
               \/ calls[Head(inq).rid].fut \notin {"waiting", "orphan"}))
             => /\ out' = out
                /\ errlog' = errlog
                /\ calls' = calls
                /\ pending' = pending \ {Head(inq).rid}
                /\ nextId' = nextId
                /\ spawned' = spawned
                /\ pc' = pc
       /\ \A id \in DOMAIN calls' :
             id \notin DOMAIN calls
                => /\ calls'[id].fut \in {"waiting", "orphan"}
                   /\ id \in pending']_vars

\* call 1 was settled with a result and its caller has resumed; a second
\* Response for id 1, carrying an error, has just been read: call 1 keeps
\* its result and call 2 is still waiting
C11_Witness ==
    /\ Len(calls) >= 2
    /\ calls[1].fut = "result" /\ calls[1].outcome = "result"
    /\ calls[2].fut = "waiting" /\ 2 \in pending
    /\ line = Resp(1, "obj")
    /\ pc = "read"

(* C12: with two reverse calls outstanding, each Response settles the call *)
(* whose id it carries with its own payload and leaves the other call as   *)
(* it is, in whatever order the Responses arrive; the caller of a call     *)
(* sees the outcome that the Response with its id carried.                 *)
C12_ResponsesMatchedById ==
    [][/\ (/\ Reading
           /\ Head(inq).kind = "resp"
           /\ Head(inq).err \in {"none", "obj"}
           /\ Head(inq).rid \in pending
           /\ calls[Head(inq).rid].fut = "waiting")
             => /\ calls'[Head(inq).rid].fut =
                      (IF Head(inq).err = "obj" THEN "error" ELSE "result")
                /\ \A j \in DOMAIN calls :
                      j # Head(inq).rid => calls'[j] = calls[j]
                /\ pending' = pending \ {Head(inq).rid}
       /\ \A id \in DOMAIN calls :
             (calls[id].outcome = "none"
              /\ calls'[id].outcome \in {"result", "error"})
                => calls'[id].outcome = calls[id].fut]_vars

\* calls 1 and 2 were outstanding together; the Response for 2 (a result)
\* was read while 1 was waiting, then the Response for 1 (an error); both
\* callers have resumed, each with the outcome addressed to it
C12_Witness ==
    /\ Len(calls) >= 2
    /\ calls[2].fut = "result" /\ calls[2].outcome = "result"
    /\ calls[1].fut = "error" /\ calls[1].outcome = "error"
    /\ line = Resp(1, "obj")
    /\ nsent = 3

(* C13: when the process has exited on skill/shutdown, the Response to    *)
(* the shutdown Request is on the outbound pipe, all of it.                *)
C13_AckFlushedBeforeExit ==
    pc = "exited" =>
        \A k \in 1..Len(out) : out[k] = ShutdownAck => Delivered(k)

(* C14: once skill/shutdown has been dispatched, reading a further line    *)
(* writes no Response, invokes no tool handler and no hook, and starts no  *)
(* reverse call.                                                           *)
C14_NothingAfterShutdown ==
    [][(exitScheduled /\ Reading)
          => /\ NewResponses = <<>>
             /\ ninvoked' = ninvoked
             /\ spawned' = spawned
             /\ calls' = calls]_vars

(* C15: when the dispatch of skill/load has ended and the on_load hook,    *)
(* which registers the tool advanced_analytics through its Context, has    *)
(* run, that tool is in the registry.                                      *)
C15_RegisteredToolVisible ==
    (/\ line.kind = "req"
     /\ line.method = "skill/load"
     /\ "on_load" \in hooks
     /\ pc = "read")
        => InTools("advanced_analytics")

(* C16 as stated: the dispatch of a lifecycle Request (load, unload,       *)
(* sessionStart, sessionEnd, tick) ends with the Response {ok: true},      *)
(* whether the hook is absent, returns or raises.                          *)
C16_HookFailureIsSuccess ==
    [][(Completes /\ Served # "null" /\ ServedMethod \in HookMethods)
          => NewResponses = <<ResultFrame(Served, "ok", FALSE, <<>>)>>]_vars

(* C16 amended: the dispatch of a lifecycle Request ends with the Response *)
(* {ok: true} when the hook is absent or returns, and with one error       *)
(* frame of code -32603 for the Request's id when the hook raises; a       *)
(* Notification whose hook raises is logged and not answered.  In all      *)
(* cases the loop goes on reading.                                         *)
C16_HookFailureIsError ==
    [][(Completes /\ ServedMethod \in HookMethods)
          => /\ pc' = "read"
             /\ (Served # "null" /\ ~HandlerFails)
                   => NewResponses = <<ResultFrame(Served, "ok", FALSE, <<>>)>>
             /\ (Served # "null" /\ HandlerFails)
                   => /\ Len(NewResponses) = 1
                      /\ NewResponses[1].t = "error"
                      /\ NewResponses[1].id = Served
                      /\ NewResponses[1].code = InternalError
             /\ (Served = "null" /\ HandlerFails)
                   => /\ NewResponses = <<>>
                      /\ errlog' = Append(errlog, "notification error")]_vars

\* a skill/sessionStart Request whose hook raised has been answered with
\* the error frame
C16_Witness ==
    /\ line = Req("a", "skill/sessionStart", "", "")
    /\ "on_session_start" \in hooks
    /\ out # <<>>
    /\ out[Len(out)] = ErrorFrame("a", InternalError, "handler failed")
    /\ pc = "read"

(* C17: a tools/call whose handler raises is answered, when it is a        *)
(* Request, with one error frame of code -32603 for its id, and is only    *)
(* logged when it is a Notification; the loop goes on reading with the     *)
(* registry, the pending table and the reverse calls as they were.         *)
C17_ToolExceptionIsInternalError ==
    [][(/\ Reading
        /\ Head(inq).kind = "req"
        /\ Head(inq).method = "tools/call"
        /\ InTools(Head(inq).tool)
        /\ HasRaise(ToolBody(Head(inq).tool)))
          => /\ pc' = "read"
             /\ tools' = tools
             /\ pending' = pending
             /\ calls' = calls
             /\ ninvoked' = ninvoked + 1
             /\ IF Head(inq).id # "null"
                THEN /\ out' = Append(out, ErrorFrame(Head(inq).id,
                                          InternalError, "handler failed"))
                     /\ errlog' = errlog
                ELSE /\ out' = out
                     /\ errlog' = Append(errlog, "notification error")]_vars

\* the handler of a Request raised and was answered with the error frame,
\* the handler of a Notification raised and was logged, and the Request
\* read after them has been dispatched and answered with its result
C17_Witness ==
    /\ Len(out) = 2
    /\ out[1] = ErrorFrame("a", InternalError, "handler failed")
    /\ out[2] = ResultFrame("a", "plain", FALSE, <<>>)
    /\ errlog = <<"notification error">>
    /\ line = Req("a", "tools/call", "plain", "")
    /\ pc = "read"

(* C18: the Response to a skill/beforeMessage or skill/afterResponse       *)
(* Request carries the string the hook returned, the empty string          *)
(* included, when the hook is set and returned a string, and null when     *)
(* the hook returned something else or is not set.                         *)
C18_MessageHookEcho ==
    [][(/\ Reading
        /\ Head(inq).kind = "req"
        /\ Head(inq).method \in {"skill/beforeMessage", "skill/afterResponse"}
        /\ Head(inq).id # "null")
          => out' = Append(out,
                      ResultFrame(Head(inq).id,
                                  IF SlotOf(Head(inq).method) \in hooks
                                     /\ hookRet' \in {"str:text", "str:"}
                                  THEN hookRet' ELSE "null",
                                  FALSE, <<>>))]_vars

\* the hook returned the empty string and the Response carries it; an
\* earlier call of the hook returned no string and was answered with null
C18_Witness ==
    /\ Len(out) = 2
    /\ out[1] = ResultFrame("a", "null", FALSE, <<>>)
    /\ out[2] = ResultFrame("a", "str:", FALSE, <<>>)
    /\ hookRet = "str:"
    /\ line = Req("a", "skill/beforeMessage", "", "")
    /\ "on_before_message" \in hooks

(* C19: on the outbound pipe the bytes of the frames are in the order the  *)
(* frames were written and the bytes of one frame are contiguous: the      *)
(* head of a frame is followed by its tail and by nothing else, and no     *)
(* frame appears twice.                                                    *)
C19_WritesSerialized ==
    \A i \in 1..Len(wire) :
        /\ wire[i].part = "head"
              => (i = Len(wire) \/ wire[i + 1] = Chunk(wire[i].f, "tail"))
        /\ wire[i].part = "tail"
              => (i > 1 /\ wire[i - 1] = Chunk(wire[i].f, "head"))
        /\ (i < Len(wire) /\ wire[i].part # "head")
              => wire[i + 1].f = wire[i].f + 1
        /\ (i = 1) => wire[i].f = 1

\* the pipe took a part of a Response, the request frame of a detached
\* reverse call was written meanwhile, and the pipe then took the rest of
\* the Response and after it the request frame
C19_Witness ==
    /\ Len(wire) >= 4
    /\ wire[2] = Chunk(2, "head")
    /\ wire[3] = Chunk(2, "tail")
    /\ wire[4] = Chunk(3, "whole")
    /\ IsResponseFrame(out[2])
    /\ out[3].t = "call"

(* C20: a tools/call Request for a registered tool whose handler does not  *)
(* raise by itself invokes the handler once, with a Context among its      *)
(* arguments, and is answered with the handler's result wrapped as         *)
(* content and isError.                                                    *)
C20_ToolInvokedWithContext ==
    [][(/\ Reading
        /\ Head(inq).kind = "req"
        /\ Head(inq).method = "tools/call"
        /\ InTools(Head(inq).tool)
        /\ ToolBody(Head(inq).tool) \in {<<>>, <<Op("ctx", "")>>}
        /\ Head(inq).id # "null")
          => /\ ninvoked' = ninvoked + 1
             /\ out' = Append(out, ResultFrame(Head(inq).id, Head(inq).tool,
                                               FALSE, <<>>))]_vars

----------------------------------------------------------------------------
\* the Response to a tools/list Request
IsToolsList(f) == f.t = "result" /\ f.body = "tools"

\* the first and the last place of a name in the definition's tool list
FirstPos(n) ==
    CHOOSE i \in 1..Len(SkillTools) :
        /\ SkillTools[i].name = n
        /\ \A j \in 1..(i - 1) : SkillTools[j].name # n

LastPos(n) ==
    CHOOSE i \in 1..Len(SkillTools) :
        /\ SkillTools[i].name = n
        /\ \A j \in (i + 1)..Len(SkillTools) : SkillTools[j].name # n

(* C21: every Response to tools/list lists each entry of the registry      *)
(* once, with its name and its description and schema, and nothing else;   *)
(* the items are in the order in which the names first appear in the       *)
(* skill definition; and all Responses to tools/list carry the same list.  *)
C21_ToolsListStable ==
    \A k \in 1..Len(out) :
        IsToolsList(out[k]) =>
            LET L == out[k].list IN
            /\ Len(L) = Len(tools)
            /\ \A i \in 1..Len(tools) :
                  Cardinality({j \in 1..Len(L) :
                                  /\ L[j].name = tools[i].name
                                  /\ L[j].desc = tools[i].ver}) = 1
            /\ \A i, j \in 1..Len(L) :
                  i < j => FirstPos(L[i].name) < FirstPos(L[j].name)
            /\ \A k2 \in 1..Len(out) :
                  IsToolsList(out[k2]) => out[k2].list = L

\* two tools/list Requests were answered, with the failed call of a tool
\* between them
C21_Witness ==
    /\ Len(out) = 3
    /\ IsToolsList(out[1])
    /\ out[2] = ErrorFrame("a", InternalError, "handler failed")
    /\ IsToolsList(out[3])
    /\ Len(out[3].list) = 6

(* C29: the registry holds no name twice; it holds every name of the       *)
(* skill definition, each with the last tool the definition gives for      *)
(* that name; and no Response to tools/list shows a name twice.            *)
C29_RegistryNamesDistinct ==
    /\ \A i, j \in 1..Len(tools) : tools[i].name = tools[j].name => i = j
    /\ \A i \in 1..Len(SkillTools) : InTools(SkillTools[i].name)
    /\ \A i \in 1..Len(tools) : tools[i] = SkillTools[LastPos(tools[i].name)]
    /\ \A k \in 1..Len(out) :
          IsToolsList(out[k]) =>
              \A i, j \in 1..Len(out[k].list) :
                  out[k].list[i].name = out[k].list[j].name => i = j

\* the definition names "plain" twice and a Response to tools/list shows
\* it once, in the first place, with the later tool's description
C29_Witness ==
    /\ FirstPos("plain") # LastPos("plain")
    /\ \E k \in 1..Len(out) :
          /\ IsToolsList(out[k])
          /\ out[k].list[1] = [name |-> "plain", desc |-> 2]
          /\ \A i \in 2..Len(out[k].list) : out[k].list[i].name # "plain"

(* C22: the failure of a reverse call, by an error Response of the host    *)
(* or by the timeout, is seen by the handler that issued the call: the     *)
(* caller that resumes with the failure is the handler's own task.         *)
C22_FailureRaisedToHandler ==
    \A id \in DOMAIN calls :
        calls[id].outcome \in {"error", "timeout"} => calls[id].owner = "main"

C24_ResponseIffResultOrError ==
    [][/\ (Reading /\ Head(inq).kind = "resp")
             => /\ out' = out
                /\ ninvoked' = ninvoked
                /\ (spawned' = spawned \/ pc' = "crashed")
                /\ cur' = cur /\ prog' = prog
                /\ hookRet' = hookRet
                /\ dataDir' = dataDir
                /\ exitScheduled' = exitScheduled
                /\ nextId' = nextId
       /\ (Reading /\ Head(inq).kind = "req")
             => \/ /\ pc' = "await"
                   /\ cur'.method = Head(inq).method
                   /\ cur'.id = Head(inq).id
                \/ /\ pc' = "read"
                   /\ Head(inq).id # "null"
                        => /\ Len(NewResponses) = 1
                           /\ NewResponses[1].id = Head(inq).id
                           /\ Head(inq).method \notin Methods
                                 => NewResponses[1].t = "error"
                   /\ Head(inq).id = "null" => NewResponses = <<>>]_vars

\* a message with a result, the method skill/tick and the id of call 1
\* has been read: it settled call 1 and the on_tick hook did not run again
C24_Witness ==
    /\ line = MethodResp
    /\ "on_tick" \in hooks
    /\ Len(calls) = 2
    /\ calls[1].fut = "result"
    /\ spawned = <<>>
    /\ Len(out) = 2
    /\ pc = "read"

(* C25: the loop ends by EOF only after draining: the step that ends it    *)
(* is taken with the stream closed, no line left unread and no dispatch    *)
(* in progress (every line read before has been dispatched to its end, and *)
(* answered as C2 says), and it writes nothing and invokes nothing; while  *)
(* a line is unread or a handler is suspended the loop does not end by     *)
(* EOF; once it has ended nothing is read, written or invoked any more.    *)
C25_EOFEndsLoopAfterDrain ==
    [][/\ (pc # "done" /\ pc' = "done")
             => /\ closed /\ inq = <<>>
                /\ pc = "read" /\ cur = NoMsg /\ prog = <<>>
                /\ inq' = inq /\ out' = out
                /\ ninvoked' = ninvoked /\ hookRet' = hookRet
                /\ dataDir' = dataDir /\ nextId' = nextId
       /\ pc = "done"
             => /\ pc' = "done"
                /\ inq' = inq /\ out' = out
                /\ ninvoked' = ninvoked /\ hookRet' = hookRet
                /\ calls' = calls /\ nextId' = nextId
                /\ dataDir' = dataDir]_vars

\* the host wrote three Requests and closed the stream; the loop has ended
\* by EOF with the three of them answered, one of them after its handler
\* had waited for a reverse call
C25_Witness ==
    /\ pc = "done"
    /\ closed
    /\ nsent = 3
    /\ inq = <<>>
    /\ Len(SelectSeq(out, IsResponseFrame)) = 3
    /\ \E id \in DOMAIN calls : calls[id].owner = "main"
                                /\ calls[id].outcome # "none"

(* C26: the data directory is set once: only a skill/load Request changes  *)
(* it, and once it has been set no later message changes it.               *)
C26_DataDirSetOnce ==
    [][/\ dataDir' # dataDir
             => Reading /\ IsRequest(Head(inq))
                /\ Head(inq).method = "skill/load"
       /\ dataDir # "" => dataDir' = dataDir]_vars

\* this step reads a Request or Notification of a lifecycle method that
\* has no hook to call: skill/activate, skill/deactivate, or a method whose
\* hook slot is unset
ReadsHooklessLifecycle ==
    /\ Reading
    /\ IsRequest(Head(inq))
    /\ \/ Head(inq).method \in {"skill/activate", "skill/deactivate"}
       \/ /\ Head(inq).method \in HookMethods
          /\ SlotOf(Head(inq).method) \notin hooks

(* C28: a lifecycle method whose hook slot is unset, and skill/activate    *)
(* and skill/deactivate always, is a successful no-op: the dispatch ends   *)
(* in the turn that read the message, a Request is answered {ok: true}     *)
(* and a Notification with nothing, no reverse-call frame is written and   *)
(* no reverse call is issued or left to a task, and the registry, the      *)
(* pending table and the id counter are unchanged.                         *)
C28_UnsetHookIsNoOp ==
    [][ReadsHooklessLifecycle
          => /\ pc' = "read"
             /\ NewFrames = IF Head(inq).id # "null"
                            THEN <<ResultFrame(Head(inq).id, "ok", FALSE,
                                               <<>>)>>
                            ELSE <<>>
             /\ tools' = tools
             /\ pending' = pending
             /\ nextId' = nextId
             /\ calls' = calls
             /\ spawned' = spawned
             /\ errlog' = errlog]_vars

\* with no hook set, skill/unload and then skill/tick were answered
\* {ok: true} and no reverse call was issued
C28_Witness ==
    /\ hooks = {}
    /\ line = Req("a", "skill/tick", "", "")
    /\ pc = "read"
    /\ out = <<ResultFrame("a", "ok", FALSE, <<>>),
               ResultFrame("a", "ok", FALSE, <<>>)>>
    /\ calls = <<>> /\ spawned = <<>> /\ pending = {}
    /\ nextId = FirstId

(* C30: inbound handling is strictly sequential: while a handler or hook   *)
(* is suspended no line is consumed, be it a Request, a Notification or a  *)
(* Response; a line is consumed only when no dispatch is in progress; the  *)
(* message being handled is the last line read; and a Response frame is    *)
(* written only by the step that ends the dispatch of that message, so     *)
(* Requests are answered in the order they were received.                  *)
C30_SequentialHandling ==
    [][/\ pc = "await" => (~Reading /\ SubSeq(inq', 1, Len(inq)) = inq)
       /\ Reading => (pc = "read" /\ cur = NoMsg /\ prog = <<>>
                      /\ inq' = Tail(inq) /\ line' = Head(inq))
       /\ pc = "await" => (line.kind = "req" /\ cur.id = line.id
                           /\ cur.method = line.method
                           /\ cur.tool = line.tool)
       /\ NewResponses # <<>>
             => /\ Len(NewResponses) = 1
                /\ pc' = "read"
                /\ IF pc = "await"
                   THEN NewResponses[1].id = line.id /\ ~Reading
                   ELSE Reading /\ NewResponses[1].id = Head(inq).id]_vars

\* a tool awaited reverse call 1 until it timed out and was answered with
\* an error; the host's Response for call 1 was read only after that
C30_Witness ==
    /\ pc = "read"
    /\ line = Resp(1, "none")
    /\ nsent = 2
    /\ Len(calls) >= 1
    /\ calls[1].owner = "main"
    /\ calls[1].outcome = "timeout"
    /\ \E i \in 1..Len(out) : out[i].t = "error" /\ out[i].code = InternalError

\* no reverse call waits, no entry is in the pending table and no handler
\* is suspended in a reverse call
AllSettled ==
    /\ pending = {}
    /\ pc # "await"
    /\ \A id \in DOMAIN calls : calls[id].fut # "waiting"

(* C27: waiting on a reverse call is bounded by the timeout.  While the    *)
(* process lives, every reverse call is eventually settled, by a Response  *)
(* or by the timeout, and its entry leaves the pending table; a handler    *)
(* suspended in a reverse call resumes; once no more calls are issued the  *)
(* table is empty and stays empty.  A run issues finitely many calls, so   *)
(* this is one statement: from some point on, either the process has ended *)
(* or nothing waits and the table is empty.                                *)
C27_WaitingBounded == <>[](~Alive \/ AllSettled)

\* the reverse calls of detached tasks whose request frame this step writes
NewTaskCalls ==
    {id \in DOMAIN calls' \ DOMAIN calls : calls'[id].owner = "task"}

\* this step settles a reverse call of a detached task with a failure, or
\* reports the failure to the task
TaskCallFails ==
    \E id \in DOMAIN calls :
       /\ calls[id].owner = "task"
       /\ id \in DOMAIN calls'
       /\ \/ calls[id].fut = "waiting"
             /\ calls'[id].fut \in {"error", "cancelled"}
          \/ calls[id].outcome = "none"
             /\ calls'[id].outcome \in {"error", "timeout"}

(* C31: a fire-and-forget reverse call started by a handler or hook that   *)
(* does not suspend afterwards is only scheduled by the step that ends the *)
(* dispatch: that step writes the Response (nothing for a Notification)    *)
(* and no request frame.  The request frame of a detached task is written  *)
(* by a later step of its own, which writes no Response and does not touch *)
(* the handler being served.  When such a call fails, by timeout or by an  *)
(* error Response, the step writes no frame and nothing is logged, the     *)
(* frames already written stay as they are, and the message being served   *)
(* is untouched, so no Response, earlier or later, depends on the failure. *)
C31_FireAndForgetAfterResponse ==
    [][/\ (Len(spawned') > Len(spawned) /\ pc' = "read")
             => /\ Completes
                /\ NewTaskCalls = {}
                /\ NewFrames = NewResponses
                /\ Len(NewResponses) = IF Served # "null" THEN 1 ELSE 0
       /\ NewTaskCalls # {}
             => /\ spawned # <<>> /\ spawned' = Tail(spawned)
                /\ Len(NewFrames) = 1
                /\ NewFrames[1] = CallFrame(nextId, Head(spawned))
                /\ NewResponses = <<>>
                /\ pc' = pc /\ cur' = cur /\ prog' = prog
       /\ TaskCallFails
             => /\ out' = out
                /\ errlog' = errlog
                /\ cur' = cur /\ prog' = prog
                /\ pc' = pc
                /\ tools' = tools /\ hooks' = hooks]_vars

\* skill/tick was answered {ok: true} before the frames of the two calls
\* its hook left to tasks; call 1 then failed with the host's error and
\* the Request that followed was answered {ok: true} all the same
C31_Witness ==
    /\ Len(out) >= 4
    /\ out[1] = ResultFrame("a", "ok", FALSE, <<>>)
    /\ out[2] = CallFrame(1, "state/set")
    /\ out[3] = CallFrame(2, "intelligence/emitEvent")
    /\ out[4] = ResultFrame("a", "ok", FALSE, <<>>)
    /\ calls[1].owner = "task" /\ calls[1].outcome = "error"
    /\ pc = "read"

\* the positions of the outbound stream that hold the request frame of
\* reverse call id
FramesOfCall(id) ==
    {k \in 1..Len(out) : out[k].t = "call" /\ out[k].cid = id}

(* C32: the pending table is keyed by the ids of reverse calls: every id   *)
(* in it was allocated (it lies in 1..next id - 1), it belongs to one      *)
(* call, whose request frame is on the outbound stream exactly once, and   *)
(* that call has not been reported to its caller as settled (its caller    *)
(* still waits, or was cancelled with the process).                        *)
C32_PendingTableWellFormed ==
    /\ pending \subseteq FirstId..(nextId - 1)
    /\ \A id \in pending :
          /\ id \in DOMAIN calls
          /\ Cardinality(FramesOfCall(id)) = 1
          /\ \A k \in FramesOfCall(id) : out[k].body = calls[id].method
          /\ calls[id].outcome \in {"none", "aborted"}
          /\ calls[id].outcome = "aborted" => ~Alive

(* C33: only a null (or absent) id suppresses the Response.  A Request     *)
(* whose id is 0 or the empty string is answered with one frame that       *)
(* carries that id, a result when the handler returned and an error when   *)
(* it raised, and nothing is logged for it; a message whose id is null     *)
(* gets no frame, and when its handler raises the failure is only logged.  *)
C33_OnlyNullIdSuppresses ==
    [][(Reading /\ IsRequest(Head(inq)) /\ pc' = "read")
          => LET l == Head(inq) IN
             /\ l.id \in FalsyIds
                  => /\ Len(NewFrames) = 1
                     /\ NewFrames[1].id = l.id
                     /\ NewFrames[1].t = IF l.tool = "boom" THEN "error"
                                         ELSE "result"
                     /\ errlog' = errlog
             /\ l.id = "null"
                  => /\ NewFrames = <<>>
                     /\ (l.method = "tools/call" /\ l.tool = "boom")
                           => errlog' = Append(errlog, "notification error")]_vars

\* a Request with id 0 was answered with its result, a Request with id ""
\* with the error of its handler, and the same failing call with id null
\* was only logged
C33_Witness ==
    /\ out = <<ResultFrame("0", "plain", FALSE, <<>>),
               ErrorFrame("", InternalError, "handler failed")>>
    /\ errlog = <<"notification error">>
    /\ line = Req("null", "tools/call", "boom", "")
    /\ nsent = 3
    /\ pc = "read"

\* this step is a turn of the example's loop
TsReading == Len(tsk'.inq) < Len(tsk.inq)

TsNewLines == SubSeq(tsk'.out, Len(tsk.out) + 1, Len(tsk'.out))

(* C34: in the tool-skill example every non-blank input line produces      *)
(* exactly one output line: a -32700 error with id null for a line that is *)
(* not JSON, a -32601 error for an unknown method, and a result otherwise, *)
(* and the loop goes on unless the line was a shutdown request; a blank    *)
(* line produces nothing; once a shutdown request has been answered no     *)
(* line is read and nothing is printed.                                    *)
C34_OneOutputLinePerInput ==
    [][/\ TsReading
             => LET l == Head(tsk.inq) IN
                /\ tsk.pc = "loop"
                /\ l.kind = "blank" => TsNewLines = <<>>
                /\ l.kind # "blank"
                      => /\ Len(TsNewLines) = 1
                         /\ l.kind = "badjson"
                               => TsNewLines[1] = TsError("null", ParseError)
                         /\ l.kind # "badjson"
                               => TsNewLines[1].t \in {"result", "error"}
                         /\ TsNewLines[1].t = "error" /\ l.kind # "badjson"
                               => TsNewLines[1].code = MethodNotFound
                /\ tsk'.pc = IF l.kind = "req" /\ l.method = "shutdown"
                            THEN "done" ELSE "loop"
       /\ tsk.pc = "done" => (tsk'.out = tsk.out /\ tsk'.inq \in {tsk.inq}
                             \cup {Append(tsk.inq, l) : l \in ToolSkillLines}
                             /\ tsk'.pc = "done")]_vars

====
